---- MODULE Spec2Model ----
(***************************************************************************)
(* Retry handler with exponential backoff (src/utils/retry_handler.py).    *)
(*                                                                         *)
(* The module models                                                       *)
(*   - the two error classifiers is_rate_limit_error / is_retryable_error  *)
(*     on messages that are sequences of characters,                       *)
(*   - the retry loop that backoff.on_exception(backoff.expo, ...) runs    *)
(*     around `wrapper`, with the keyword arguments retry_with_backoff     *)
(*     passes to it (and the defaults it leaves alone, jitter included),   *)
(*   - the logging callbacks on_backoff / on_giveup and the warning of     *)
(*     `wrapper`.                                                          *)
(* Durations are whole seconds.                                            *)
(***************************************************************************)
EXTENDS Integers, Sequences, FiniteSets, TLC

(***************************************************************************)
(* Bounds of the model.                                                    *)
(***************************************************************************)
MaxTriesBound == 3
MaxTimeBound == 3
MaxBaseBound == 2
MaxDelayBound == 2
MaxDuration == 1
MaxWords == 2
MaxClassifyCalls == 2

(***************************************************************************)
(* Strings: a message is a sequence of one-character strings.              *)
(***************************************************************************)
Upper == <<"A","B","C","D","E","F","G","H","I","J","K","L","M",
           "N","O","P","Q","R","S","T","U","V","W","X","Y","Z">>

Lowercase == <<"a","b","c","d","e","f","g","h","i","j","k","l","m",
               "n","o","p","q","r","s","t","u","v","w","x","y","z">>

\* str.lower() on one character
LowerChar(c) ==
    IF \E k \in 1..Len(Upper) : Upper[k] = c
    THEN Lowercase[CHOOSE k \in 1..Len(Upper) : Upper[k] = c]
    ELSE c

\* a classifier that forgets to lower-case the message
lower_forgotten(s) == s

\* str.lower()
lower(s) == [k \in 1..Len(s) |-> LowerChar(s[k])]

\* `sub in s` on Python strings
Contains(s, sub) ==
    \E k \in 1..(Len(s) - Len(sub) + 1) : SubSeq(s, k, k + Len(sub) - 1) = sub

\* an exception without a status_code attribute
NoStatus == -1

rate_limit_indicators ==
    << <<"r","a","t","e"," ","l","i","m","i","t">>,
       <<"r","a","t","e","l","i","m","i","t">>,
       <<"t","o","o"," ","m","a","n","y"," ","r","e","q","u","e","s","t","s">>,
       <<"4","2","9">>,
       <<"q","u","o","t","a"," ","e","x","c","e","e","d","e","d">>,
       <<"t","h","r","o","t","t","l","e","d">>,
       <<"r","e","q","u","e","s","t","s"," ","p","e","r"," ","m","i","n","u","t","e">> >>

retryable_indicators ==
    << <<"t","i","m","e","o","u","t">>,
       <<"c","o","n","n","e","c","t","i","o","n">>,
       <<"s","e","r","v","i","c","e"," ","u","n","a","v","a","i","l","a","b","l","e">>,
       <<"5","0","3">>,
       <<"5","0","2">>,
       <<"5","0","0">>,
       <<"i","n","t","e","r","n","a","l"," ","s","e","r","v","e","r"," ","e","r","r","o","r">>,
       <<"t","e","m","p","o","r","a","r","y">> >>

\* a classifier that looks at the message only
is_rate_limit_error_message_only(e) ==
    LET error_str == lower(e.msg)
    IN  \E k \in 1..Len(rate_limit_indicators) :
            Contains(error_str, rate_limit_indicators[k])

\* is_rate_limit_error(e); e = [msg |-> str(e), status_code |-> code or NoStatus]
is_rate_limit_error(e) ==
    LET error_str == lower(e.msg)
    IN  IF e.status_code # NoStatus /\ e.status_code = 429
        THEN TRUE
        ELSE \E k \in 1..Len(rate_limit_indicators) :
                 Contains(error_str, rate_limit_indicators[k])

\* is_retryable_error(e)
is_retryable_error(e) ==
    IF is_rate_limit_error(e)
    THEN TRUE
    ELSE LET error_str == lower(e.msg)
         IN  \E k \in 1..Len(retryable_indicators) :
                 Contains(error_str, retryable_indicators[k])


(***************************************************************************)
(* The retry loop.                                                         *)
(***************************************************************************)
\* callers of the decorated function; invocation 1 is the one Spec runs
Invs == {1, 2}

VARIABLES
    cfg,        \* arguments of retry_with_backoff: max_tries, max_time, base_delay, max_delay
    args,       \* *args, **kwargs each caller calls the decorated function with
    now,        \* the wall clock, datetime.datetime.now()
    pc,         \* per invocation: Idle, Ready, Attempting, Waiting, Succeeded, FailedNonRetryable, GaveUp
    tries,      \* `tries` of the loop
    start,      \* `start` of the loop
    elapsed,    \* `elapsed` of the loop, sampled when an attempt begins
    n,          \* exponent of the backoff.expo generator
    began,      \* clock value at which the attempt in progress was started
    ended,      \* clock value at which the last attempt returned or raised
    due,        \* clock value at which the sleep in progress ends
    calls,      \* number of invocations of func
    outcomes,   \* what each invocation of func did, in order
    events,     \* what the invocation handed to the logger, in order
    waits,      \* arguments of time.sleep, in order
    result,     \* the value returned to the caller
    raised,     \* the exception propagated to the caller: <<>> or <<e>>
    exc,        \* classifier run: the exception under classification
    verdict     \* classifier run: the answers of each classifier, in order

vars == <<cfg, args, now, pc, tries, start, elapsed, n, began, ended, due, calls,
          outcomes, events, waits, result, raised, exc, verdict>>

loopVars == <<cfg, args, now, pc, tries, start, elapsed, n, began, ended, due, calls,
              outcomes, events, waits, result, raised>>

None == "None"

Min(a, b) == IF a < b THEN a ELSE b

Max(a, b) == IF a > b THEN a ELSE b

RECURSIVE Pow(_, _)
Pow(b, k) == IF k = 0 THEN 1 ELSE b * Pow(b, k - 1)

\* the exceptions the wrapped operation raises in the loop runs
RateLimitError == [msg |-> <<"R","a","t","e"," ","L","i","m","i","t">>, status_code |-> NoStatus]

TimeoutError == [msg |-> <<"T","i","m","e","o","u","t">>, status_code |-> NoStatus]

ValueError == [msg |-> <<"b","a","d">>, status_code |-> 400]

Failures == {RateLimitError, TimeoutError, ValueError}

\* the values the wrapped operation returns
Values == {"v1", "v2"}

Configs ==
    [max_tries : 1..MaxTriesBound, max_time : 1..MaxTimeBound,
     base_delay : 1..MaxBaseBound, max_delay : 1..MaxDelayBound]

\* a giveup predicate that lets every failure be retried
giveup_never(e) == FALSE

\* giveup=lambda e: not is_retryable_error(e)
giveup(e) == ~ is_retryable_error(e)

\* backoff.expo(base=base_delay, max_value=max_delay), factor left at 1:
\* the value it yields when its exponent is k
expo(base, max_value, k) ==
    LET a == 1 * Pow(base, k)
    IN  IF a < max_value THEN a ELSE max_value

\* the exponent after that yield: it advances only while the value is not clamped
expo_next(base, max_value, k) ==
    IF 1 * Pow(base, k) < max_value THEN k + 1 ELSE k

\* the default jitter of backoff.on_exception, full_jitter: random.uniform(0, value),
\* any number of whole seconds from 0 to value
full_jitter(value) == 0..value

\* _next_wait: the jittered value, never longer than the rest of max_time
next_wait(jittered, el, max_time) == Min(jittered, max_time - el)

\* a sleep that returns at once
sleep_skipped(t, seconds) == t

\* time.sleep(seconds) called at time t: the time at which it returns
sleep(t, seconds) == t + seconds

\* a wrapper that calls func without the caller's arguments
forward_nothing(a) == <<>>

\* func(*args, **kwargs): the arguments func receives
forward(a) == a

\* the warning of wrapper's except clause
RateLimitWarning(e) ==
    [level |-> "warning", kind |-> "ratelimit", exception |-> e]

\* a callback that counts the tries from 0
on_backoff_zero_based(t, seconds, e) ==
    [level |-> "warning", kind |-> "backoff", tries |-> t - 1, wait |-> seconds, exception |-> e]

\* on_backoff(details): logger.warning
on_backoff(t, seconds, e) ==
    [level |-> "warning", kind |-> "backoff", tries |-> t, wait |-> seconds, exception |-> e]

\* on_giveup(details): logger.error
on_giveup(t, e) ==
    [level |-> "error", kind |-> "giveup", tries |-> t, exception |-> e]

\* a wrapper that warns about every retryable failure
wrapper_log_retryable(e) == IF is_retryable_error(e) THEN <<RateLimitWarning(e)>> ELSE <<>>

\* what wrapper logs before it re-raises e
wrapper_log(e) == IF is_rate_limit_error(e) THEN <<RateLimitWarning(e)>> ELSE <<>>

\* a loop that raises the failure of the first attempt
reraise_first(i, e) == IF outcomes[i] = <<>> THEN e ELSE outcomes[i][1].exception

\* the bare `raise` of wrapper and of the loop: the exception being handled
reraise(i, e) == e

\* cap of the attempt counter: a loop that honours max_tries stays below it
MaxCalls == cfg.max_tries + 1

InitLoop(active, configs) ==
    /\ cfg \in configs
    /\ args = [i \in Invs |-> <<"request", i>>]
    /\ now = 0
    /\ pc = [i \in Invs |-> IF i \in active THEN "Ready" ELSE "Idle"]
    /\ tries = [i \in Invs |-> 0]
    /\ start = [i \in Invs |-> 0]
    /\ elapsed = [i \in Invs |-> 0]
    /\ n = [i \in Invs |-> 0]
    /\ began = [i \in Invs |-> 0]
    /\ ended = [i \in Invs |-> 0]
    /\ due = [i \in Invs |-> 0]
    /\ calls = [i \in Invs |-> 0]
    /\ outcomes = [i \in Invs |-> <<>>]
    /\ events = [i \in Invs |-> <<>>]
    /\ waits = [i \in Invs |-> <<>>]
    /\ result = [i \in Invs |-> None]
    /\ raised = [i \in Invs |-> <<>>]

\* a decorator whose wait generator is shared by all calls and restarted by each
Call_shared_generator(i) ==
    /\ pc[i] = "Ready"
    /\ start' = [start EXCEPT ![i] = now]
    /\ n' = [j \in Invs |-> 0]
    /\ tries' = [tries EXCEPT ![i] = 1]
    /\ elapsed' = [elapsed EXCEPT ![i] = 0]
    /\ began' = [began EXCEPT ![i] = now]
    /\ calls' = [calls EXCEPT ![i] = @ + 1]
    /\ pc' = [pc EXCEPT ![i] = "Attempting"]
    /\ UNCHANGED <<cfg, args, now, ended, due, outcomes, events, waits, result, raised, exc, verdict>>

\* the caller calls the decorated function: the loop is set up and attempt 1 begins
Call(i) ==
    /\ pc[i] = "Ready"
    /\ start' = [start EXCEPT ![i] = now]
    /\ n' = [n EXCEPT ![i] = 0]
    /\ tries' = [tries EXCEPT ![i] = 1]
    /\ elapsed' = [elapsed EXCEPT ![i] = 0]
    /\ began' = [began EXCEPT ![i] = now]
    /\ calls' = [calls EXCEPT ![i] = @ + 1]
    /\ pc' = [pc EXCEPT ![i] = "Attempting"]
    /\ UNCHANGED <<cfg, args, now, ended, due, outcomes, events, waits, result, raised, exc, verdict>>

\* a loop that drops the value func returned
Return_dropped(i, v, d) ==
    /\ pc[i] = "Attempting"
    /\ now' = Max(now, began[i] + d)
    /\ ended' = [ended EXCEPT ![i] = Max(now, began[i] + d)]
    /\ outcomes' = [outcomes EXCEPT ![i] = Append(@, [ok |-> TRUE, args |-> forward(args[i]), value |-> v])]
    /\ result' = [result EXCEPT ![i] = None]
    /\ pc' = [pc EXCEPT ![i] = "Succeeded"]
    /\ UNCHANGED <<cfg, args, tries, start, elapsed, n, began, due, calls, events, waits, raised,
                   exc, verdict>>

\* func returns v after d seconds: the loop returns it
Return(i, v, d) ==
    /\ pc[i] = "Attempting"
    /\ now' = Max(now, began[i] + d)
    /\ ended' = [ended EXCEPT ![i] = Max(now, began[i] + d)]
    /\ outcomes' = [outcomes EXCEPT ![i] = Append(@, [ok |-> TRUE, args |-> forward(args[i]), value |-> v])]
    /\ result' = [result EXCEPT ![i] = v]
    /\ pc' = [pc EXCEPT ![i] = "Succeeded"]
    /\ UNCHANGED <<cfg, args, tries, start, elapsed, n, began, due, calls, events, waits, raised,
                   exc, verdict>>

\* a loop without attempt budget
gives_up_unbounded(i, e) ==
    \/ giveup(e)
    \/ elapsed[i] >= cfg.max_time

\* the attempt budget compared one attempt too late
gives_up_late(i, e) ==
    \/ giveup(e)
    \/ tries[i] = cfg.max_tries + 1
    \/ elapsed[i] >= cfg.max_time

\* the condition under which the loop stops retrying after e
gives_up(i, e) ==
    \/ giveup(e)
    \/ tries[i] = cfg.max_tries
    \/ elapsed[i] >= cfg.max_time

\* func raises e after d seconds and the loop gives up: on_giveup, then e is re-raised
GiveUp(i, e, d) ==
    /\ pc[i] = "Attempting"
    /\ gives_up(i, e)
    /\ now' = Max(now, began[i] + d)
    /\ ended' = [ended EXCEPT ![i] = Max(now, began[i] + d)]
    /\ outcomes' = [outcomes EXCEPT ![i] = Append(@, [ok |-> FALSE, args |-> forward(args[i]), exception |-> e])]
    /\ events' = [events EXCEPT ![i] = (@ \o wrapper_log(e)) \o <<on_giveup(tries[i], e)>>]
    /\ raised' = [raised EXCEPT ![i] = <<reraise(i, e)>>]
    /\ pc' = [pc EXCEPT ![i] = IF giveup(e) THEN "FailedNonRetryable" ELSE "GaveUp"]
    /\ UNCHANGED <<cfg, args, tries, start, elapsed, n, began, due, calls, waits, result,
                   exc, verdict>>

\* func raises e after d seconds and the loop backs off: on_backoff, then time.sleep
Backoff(i, e, d) ==
    /\ pc[i] = "Attempting"
    /\ ~ gives_up(i, e)
    /\ \E jittered \in full_jitter(expo(cfg.base_delay, cfg.max_delay, n[i])) :
        LET seconds == next_wait(jittered, elapsed[i], cfg.max_time)
        IN  /\ events' = [events EXCEPT ![i] =
                             (@ \o wrapper_log(e)) \o <<on_backoff(tries[i], seconds, e)>>]
            /\ waits' = [waits EXCEPT ![i] = Append(@, seconds)]
            /\ due' = [due EXCEPT ![i] = sleep(Max(now, began[i] + d), seconds)]
    /\ n' = [n EXCEPT ![i] = expo_next(cfg.base_delay, cfg.max_delay, @)]
    /\ now' = Max(now, began[i] + d)
    /\ ended' = [ended EXCEPT ![i] = Max(now, began[i] + d)]
    /\ outcomes' = [outcomes EXCEPT ![i] = Append(@, [ok |-> FALSE, args |-> forward(args[i]), exception |-> e])]
    /\ pc' = [pc EXCEPT ![i] = "Waiting"]
    /\ UNCHANGED <<cfg, args, tries, start, elapsed, began, calls, result, raised, exc, verdict>>

\* time.sleep returns: the next attempt begins
WakeUp(i) ==
    /\ pc[i] = "Waiting"
    /\ calls[i] < MaxCalls
    /\ now' = Max(now, due[i])
    /\ tries' = [tries EXCEPT ![i] = @ + 1]
    /\ elapsed' = [elapsed EXCEPT ![i] = Max(now, due[i]) - start[i]]
    /\ began' = [began EXCEPT ![i] = Max(now, due[i])]
    /\ calls' = [calls EXCEPT ![i] = @ + 1]
    /\ pc' = [pc EXCEPT ![i] = "Attempting"]
    /\ UNCHANGED <<cfg, args, start, n, ended, due, outcomes, events, waits, result, raised,
                   exc, verdict>>

Durations == 0..MaxDuration

\* a step of invocation i around a func that returns a value of V or raises an
\* exception of F, after a time of D
StepOf(i, F, V, D) ==
    \/ Call(i)
    \/ \E v \in V, d \in D : Return(i, v, d)
    \/ \E e \in F, d \in D : GiveUp(i, e, d)
    \/ \E e \in F, d \in D : Backoff(i, e, d)
    \/ WakeUp(i)

Step(i) == StepOf(i, Failures, Values, Durations)

NoAnswers == [rate_limit |-> <<>>, retryable |-> <<>>]

NoClassifierRun == /\ exc = [msg |-> <<>>, status_code |-> NoStatus]
                   /\ verdict = NoAnswers

Init == /\ InitLoop({1}, {c \in Configs : c.base_delay <= c.max_delay})
        /\ NoClassifierRun

Next == \E i \in Invs : Step(i)

Spec == Init /\ [][Next]_vars

\* every call of func returns or raises and every sleep ends
Fairness == \A i \in Invs : WF_vars(Step(i))

SpecFair == Init /\ [][Next]_vars /\ Fairness

\* retry_llm_call: retry_with_backoff(max_tries=5, max_time=120, base_delay=2.0, max_delay=60.0)
LLMConfig == [max_tries |-> 5, max_time |-> 120, base_delay |-> 2, max_delay |-> 60]

InitLLM == /\ InitLoop({1}, {LLMConfig})
           /\ NoClassifierRun

\* an LLM call that returns, times out or is refused, after MaxDuration seconds
NextLLM == \E i \in Invs : StepOf(i, {TimeoutError, ValueError}, {"v1"}, {MaxDuration})

SpecLLM == InitLLM /\ [][NextLLM]_vars

\* two callers of the same decorated function, their steps interleaved
PairConfigs ==
    {c \in Configs : /\ c.max_tries = 2
                     /\ c.max_time = MaxTimeBound
                     /\ c.base_delay = MaxBaseBound
                     /\ c.max_delay = MaxDelayBound}

InitPair == /\ InitLoop({1, 2}, PairConfigs)
            /\ NoClassifierRun

SpecPair == InitPair /\ [][Next]_vars


(***************************************************************************)
(* Properties of the retry loop.                                           *)
(***************************************************************************)
Terminal == {"Succeeded", "FailedNonRetryable", "GaveUp"}

Failed == {"FailedNonRetryable", "GaveUp"}

\* the events of one kind, in order
OfKind(seq, kind) == SelectSeq(seq, LAMBDA ev : ev.kind = kind)

\* the attempts of a run that raised
IsFailure(o) == ~ o.ok

\* every attempt so far raised a retryable failure
AllRetryableFailures(seq) ==
    \A k \in 1..Len(seq) : IsFailure(seq[k]) /\ is_retryable_error(seq[k].exception)

\* C1: an attempt that raises a non-retryable failure is the last one: the
\* loop is then in FailedNonRetryable, func was invoked as many times as there
\* are attempts up to that one, that attempt emitted no backoff event and
\* asked for no sleep, and the caller gets that failure; after a first attempt
\* that fails non-retryably func was invoked once and there is no backoff event.
C1_NonRetryableEndsLoop ==
    \A i \in Invs : \A k \in 1..Len(outcomes[i]) :
        (IsFailure(outcomes[i][k]) /\ ~ is_retryable_error(outcomes[i][k].exception)) =>
            /\ k = Len(outcomes[i])
            /\ pc[i] = "FailedNonRetryable"
            /\ calls[i] = k
            /\ Len(OfKind(events[i], "backoff")) = k - 1
            /\ Len(waits[i]) = k - 1
            /\ raised[i] = <<outcomes[i][k].exception>>
            /\ result[i] = None

C1_Witness ==
    \E i \in Invs :
        /\ pc[i] = "FailedNonRetryable"
        /\ calls[i] = 1
        /\ raised[i] = <<ValueError>>
        /\ OfKind(events[i], "backoff") = <<>>

\* C2: with max_tries = N and the time budget not reached, a run in which
\* every attempt raised a retryable failure ends only after exactly N
\* invocations of func, in GaveUp, with the failure propagated and exactly
\* one give-up event emitted.
C2_AlwaysFailingRunsNTimes ==
    \A i \in Invs :
        (pc[i] \in Terminal /\ AllRetryableFailures(outcomes[i])
            /\ elapsed[i] < cfg.max_time) =>
            /\ calls[i] = cfg.max_tries
            /\ Len(outcomes[i]) = cfg.max_tries
            /\ pc[i] = "GaveUp"
            /\ raised[i] = <<outcomes[i][cfg.max_tries].exception>>
            /\ Len(OfKind(events[i], "giveup")) = 1

C2_Witness ==
    \E i \in Invs :
        /\ pc[i] = "GaveUp"
        /\ cfg.max_tries = 3
        /\ calls[i] = 3
        /\ elapsed[i] < cfg.max_time
        /\ Len(OfKind(events[i], "giveup")) = 1

\* C3: a run of k < max_tries retryable failures (time budget not reached) is
\* not given up, so that a success at attempt k+1 is reached; and a run that
\* ends in Succeeded returns the value of its last invocation, after k
\* retryable failures and exactly k+1 invocations, with no give-up event.
C3_SuccessAfterKFailures ==
    \A i \in Invs :
        /\ (pc[i] \in Failed /\ AllRetryableFailures(outcomes[i])
               /\ elapsed[i] < cfg.max_time) => Len(outcomes[i]) >= cfg.max_tries
        /\ pc[i] = "Succeeded" =>
            LET k == Len(outcomes[i]) - 1
            IN  /\ k >= 0 /\ k < cfg.max_tries
                /\ AllRetryableFailures(SubSeq(outcomes[i], 1, k))
                /\ outcomes[i][k + 1].ok
                /\ result[i] = outcomes[i][k + 1].value
                /\ result[i] \in Values
                /\ raised[i] = <<>>
                /\ calls[i] = k + 1
                /\ OfKind(events[i], "giveup") = <<>>

C3_Witness ==
    \E i \in Invs :
        /\ pc[i] = "Succeeded"
        /\ calls[i] = 3
        /\ result[i] = "v2"
        /\ Len(outcomes[i]) = 3


\* C4: the k-th delay of a run is min(base_delay * 2^(k-1), max_delay).
C4_DelayIsBaseTimesPowerOfTwo ==
    \A i \in Invs : \A k \in 1..Len(waits[i]) :
        waits[i][k] = Min(cfg.base_delay * Pow(2, k - 1), cfg.max_delay)

\* C5: the loop goes on (sleeps, or attempts again) after a failure only if
\* that failure came before max_time had elapsed since the first attempt
\* and before max_tries attempts were made.
C5_BothBudgetsEnforced ==
    \A i \in Invs :
        (pc[i] \in {"Waiting", "Attempting"} /\ outcomes[i] # <<>>) =>
            /\ ended[i] - start[i] < cfg.max_time
            /\ Len(outcomes[i]) < cfg.max_tries

\* C6: a run that has ended either returned the value of its last invocation
\* or raised the failure of its last invocation, and nothing else; a run that
\* has not ended has delivered nothing.
C6_NoFailureSwallowed ==
    \A i \in Invs :
        /\ pc[i] \in Terminal =>
            LET last == outcomes[i][Len(outcomes[i])]
            IN  IF last.ok
                THEN pc[i] = "Succeeded" /\ result[i] = last.value /\ raised[i] = <<>>
                ELSE pc[i] \in Failed /\ raised[i] = <<last.exception>> /\ result[i] = None
        /\ pc[i] \notin Terminal => result[i] = None /\ raised[i] = <<>>

C6_Witness ==
    \E i \in Invs :
        /\ pc[i] = "GaveUp"
        /\ Len(outcomes[i]) >= 2
        /\ outcomes[i][1].exception = RateLimitError
        /\ raised[i] = <<TimeoutError>>

\* C7: a run that has begun reaches Succeeded, FailedNonRetryable or GaveUp,
\* and from then on func is not invoked, no event is emitted and the state
\* of the run does not change.
C7_Terminates ==
    /\ \A i \in Invs : (pc[i] = "Attempting") ~> (pc[i] \in Terminal)
    /\ [][\A i \in Invs : pc[i] \in Terminal =>
              /\ pc'[i] = pc[i]
              /\ calls'[i] = calls[i]
              /\ events'[i] = events[i]
              /\ waits'[i] = waits[i]]_vars

C7_Witness ==
    \E i \in Invs : pc[i] = "GaveUp" /\ calls[i] = MaxTriesBound /\ Len(waits[i]) = MaxTriesBound - 1

\* C8: the k-th backoff event of a run carries tries = k, the failure of
\* attempt k and the seconds of the k-th sleep; there is one per sleep; there
\* are as many as invocations while the run sleeps and one less otherwise.
C8_OneBackoffEventPerRetry ==
    \A i \in Invs :
        LET b == OfKind(events[i], "backoff")
        IN  /\ Len(b) = Len(waits[i])
            /\ \A k \in 1..Len(b) :
                /\ b[k].tries = k
                /\ b[k].wait = waits[i][k]
                /\ b[k].level = "warning"
                /\ b[k].exception = outcomes[i][k].exception
            /\ pc[i] = "Waiting" => Len(b) = calls[i]
            /\ pc[i] \in Terminal \cup {"Attempting"} => Len(b) = calls[i] - 1

C8_Witness ==
    \E i \in Invs :
        /\ pc[i] \in Terminal
        /\ calls[i] = 3
        /\ Len(OfKind(events[i], "backoff")) = 2
        /\ \E k \in 1..2 : waits[i][k] > 0

\* the attempts of a run that raised a rate-limit failure
RateLimitFailures(seq) ==
    SelectSeq(seq, LAMBDA o : IsFailure(o) /\ is_rate_limit_error(o.exception))

\* C9 as stated: a run logs the rate-limit warning once if some attempt
\* raised a rate-limit failure, and never otherwise.
C9_OneRateLimitWarningPerRun ==
    \A i \in Invs :
        Len(OfKind(events[i], "ratelimit")) =
            IF RateLimitFailures(outcomes[i]) # <<>> THEN 1 ELSE 0

\* C9 amended: a run logs one rate-limit warning for each attempt that raised
\* a rate-limit failure, carrying that failure, and none otherwise.
C9_OneRateLimitWarningPerFailure ==
    \A i \in Invs :
        LET w == OfKind(events[i], "ratelimit")
            f == RateLimitFailures(outcomes[i])
        IN  /\ Len(w) = Len(f)
            /\ \A k \in 1..Len(w) : w[k].exception = f[k].exception /\ w[k].level = "warning"

C9_Witness ==
    \E i \in Invs :
        /\ Len(OfKind(events[i], "ratelimit")) = 2
        /\ Len(outcomes[i]) = 3
        /\ outcomes[i][2].exception = TimeoutError


(***************************************************************************)
(* The classifiers on their own: an exception is built, then                *)
(* is_rate_limit_error and is_retryable_error are called on it, in any     *)
(* order.                                                                  *)
(***************************************************************************)
Fragments ==
    { <<"R","a","t","e"," ","L","i","m","i","t">>,
      <<"R","A","T","E"," ">>,
      <<"L","I","M","I","T">>,
      <<"r","a","t","e">>,
      <<"l","i","m","i","t">>,
      <<"4","2">>,
      <<"9">>,
      <<"T","i","m","e","o","u","t">>,
      <<"Q","u","o","t","a"," ">>,
      <<"e","x","c","e","e","d","e","d">>,
      <<"s","o","m","e"," ","o","t","h","e","r"," ","e","r","r","o","r">>,
      <<" ">> }

RECURSIVE MessagesOf(_)
MessagesOf(k) ==
    IF k = 0 THEN {<<>>}
    ELSE LET shorter == MessagesOf(k - 1)
         IN  shorter \cup {m \o f : m \in shorter, f \in Fragments}

Messages == MessagesOf(MaxWords)

StatusCodes == {NoStatus, 429, 500, 200}

Exceptions == [msg : Messages, status_code : StatusCodes]

\* retry_with_backoff() with its default arguments
DefaultConfig == [max_tries |-> 5, max_time |-> 60, base_delay |-> 1, max_delay |-> 30]

InitClassify ==
    /\ InitLoop({}, {DefaultConfig})
    /\ exc \in Exceptions
    /\ verdict = NoAnswers

ClassifyRateLimit ==
    /\ Len(verdict.rate_limit) < MaxClassifyCalls
    /\ verdict' = [verdict EXCEPT !.rate_limit = Append(@, is_rate_limit_error(exc))]
    /\ UNCHANGED <<exc, loopVars>>

ClassifyRetryable ==
    /\ Len(verdict.retryable) < MaxClassifyCalls
    /\ verdict' = [verdict EXCEPT !.retryable = Append(@, is_retryable_error(exc))]
    /\ UNCHANGED <<exc, loopVars>>

NextClassify == ClassifyRateLimit \/ ClassifyRetryable

SpecClassify == InitClassify /\ [][NextClassify]_vars

\* c is the letter l in lower or in upper case
SameLetter(c, l) ==
    \/ c = l
    \/ \E k \in 1..Len(Lowercase) : Lowercase[k] = l /\ Upper[k] = c

\* s contains sub, each letter in either case
ContainsAnyCase(s, sub) ==
    \E k \in 1..(Len(s) - Len(sub) + 1) :
        \A j \in 1..Len(sub) : SameLetter(s[k + j - 1], sub[j])

Answers(seq) == {seq[k] : k \in 1..Len(seq)}

\* C10: whenever is_rate_limit_error answers true for an exception,
\* is_retryable_error answers true for it; and for a message that contains
\* "rate limit" in any letter case both answer true.
C10_RateLimitedIsRetryable ==
    /\ TRUE \in Answers(verdict.rate_limit) => FALSE \notin Answers(verdict.retryable)
    /\ ContainsAnyCase(exc.msg, rate_limit_indicators[1]) =>
           /\ FALSE \notin Answers(verdict.rate_limit)
           /\ FALSE \notin Answers(verdict.retryable)

C10_Witness ==
    /\ ContainsAnyCase(exc.msg, rate_limit_indicators[1])
    /\ ~ Contains(exc.msg, rate_limit_indicators[1])
    /\ exc.status_code = NoStatus
    /\ verdict.rate_limit # <<>>
    /\ verdict.retryable # <<>>


\* the message contains none of the indicators of either list, in any letter case
NoIndicator(msg) ==
    /\ \A k \in 1..Len(rate_limit_indicators) : ~ ContainsAnyCase(msg, rate_limit_indicators[k])
    /\ \A k \in 1..Len(retryable_indicators) : ~ ContainsAnyCase(msg, retryable_indicators[k])

\* C11: an exception with status code 429 is a rate-limit error whatever its
\* message; an exception whose message contains no indicator and whose status
\* code is absent or not 429 is neither a rate-limit error nor retryable.
C11_StatusCodeAndIndicatorsDecide ==
    /\ exc.status_code = 429 => FALSE \notin Answers(verdict.rate_limit)
    /\ (NoIndicator(exc.msg) /\ exc.status_code # 429) =>
           /\ TRUE \notin Answers(verdict.rate_limit)
           /\ TRUE \notin Answers(verdict.retryable)

C11_Witness ==
    /\ exc.msg = <<"s","o","m","e"," ","o","t","h","e","r"," ","e","r","r","o","r">>
    /\ exc.status_code = 500
    /\ verdict.rate_limit = <<FALSE>>
    /\ verdict.retryable = <<FALSE>>


(***************************************************************************)
(* Concurrent invocations.                                                 *)
(***************************************************************************)
\* the state that belongs to invocation i
Local(i) ==
    <<pc[i], tries[i], start[i], elapsed[i], n[i], began[i], ended[i], due[i], calls[i],
      outcomes[i], events[i], waits[i], result[i], raised[i]>>

\* the exponent of a fresh backoff.expo generator after k yields
RECURSIVE ExpoAfter(_)
ExpoAfter(k) ==
    IF k = 0 THEN 0 ELSE expo_next(cfg.base_delay, cfg.max_delay, ExpoAfter(k - 1))

\* the events a run on its own logs for the attempts o and the sleeps w
RECURSIVE EventsOf(_, _, _)
EventsOf(o, w, k) ==
    IF k = 0 THEN <<>>
    ELSE EventsOf(o, w, k - 1) \o
         (IF o[k].ok THEN <<>>
          ELSE wrapper_log(o[k].exception) \o
               (IF k <= Len(w)
                THEN <<on_backoff(k, w[k], o[k].exception)>>
                ELSE <<on_giveup(k, o[k].exception)>>))

\* the state of invocation i is the one its own attempts and sleeps lead to
RunsAsAlone(i) ==
    LET o == outcomes[i]
        w == waits[i]
        attempts == Len(o) + (IF pc[i] = "Attempting" THEN 1 ELSE 0)
    IN  /\ tries[i] = attempts
        /\ calls[i] = attempts
        /\ Len(w) = (IF pc[i] \in Terminal THEN Len(o) - 1 ELSE Len(o))
        /\ n[i] = ExpoAfter(Len(w))
        /\ \A k \in 1..Len(w) :
               /\ w[k] \in full_jitter(expo(cfg.base_delay, cfg.max_delay, ExpoAfter(k - 1)))
               /\ IsFailure(o[k]) /\ is_retryable_error(o[k].exception)
        /\ events[i] = EventsOf(o, w, Len(o))
        /\ pc[i] = "Succeeded" => o[Len(o)].ok /\ result[i] = o[Len(o)].value /\ raised[i] = <<>>
        /\ pc[i] \in Failed => IsFailure(o[Len(o)]) /\ raised[i] = <<o[Len(o)].exception>>
        /\ pc[i] = "GaveUp" => tries[i] = cfg.max_tries \/ elapsed[i] >= cfg.max_time
        /\ pc[i] = "Waiting" => tries[i] < cfg.max_tries

\* C12: a step changes the state of one invocation only, and the attempt
\* count, the delays, the events and the outcome of every invocation are
\* those its own sequence of operation outcomes and sleeps leads to.
C12_InvocationsDoNotInterfere ==
    /\ [](\A i \in Invs : RunsAsAlone(i))
    /\ [][\E i \in Invs : \A j \in Invs \ {i} : Local(j)' = Local(j)]_vars

C12_Witness ==
    /\ pc[1] = "GaveUp"
    /\ pc[2] = "Succeeded"
    /\ calls[1] = 2
    /\ calls[2] = 2
    /\ start[2] > start[1]
    /\ waits[1] # waits[2]


\* the waits the preset is said to make between its 5 attempts
LLMWaits == <<2, 4, 8, 16>>

\* C13: a function decorated with retry_llm_call is invoked at most 5 times,
\* and the waits between its attempts are 2, 4, 8, 16 seconds: all four of
\* them when every attempt fails with a retryable error.
C13_LLMPresetWaits ==
    \A i \in Invs :
        /\ calls[i] <= 5
        /\ Len(waits[i]) <= 4
        /\ \A k \in 1..Len(waits[i]) : waits[i][k] = LLMWaits[k]
        /\ (pc[i] = "GaveUp" /\ AllRetryableFailures(outcomes[i])) => waits[i] = LLMWaits


\* C15: a run has logged a give-up event exactly if it is in GaveUp, and then
\* one, as its last event; a run in Succeeded or in FailedNonRetryable has
\* logged none.
C15_GiveUpEventOnlyInGaveUp ==
    \A i \in Invs :
        LET g == OfKind(events[i], "giveup")
        IN  /\ pc[i] = "GaveUp" =>
                /\ Len(g) = 1
                /\ events[i][Len(events[i])].kind = "giveup"
            /\ pc[i] # "GaveUp" => g = <<>>

\* C16: once the loop has started func has been invoked at least once and at
\* most max_tries times; tries is 1 when the first attempt begins, grows by
\* exactly 1 when a sleep ends and the next attempt begins, and changes at no
\* other step.
C16_AttemptsWithinBudget ==
    /\ [](\A i \in Invs : pc[i] \notin {"Idle", "Ready"} =>
              /\ calls[i] >= 1
              /\ calls[i] <= cfg.max_tries
              /\ tries[i] = calls[i])
    /\ [][\A i \in Invs :
              /\ (pc[i] = "Ready" /\ pc'[i] = "Attempting") => tries'[i] = 1
              /\ (pc[i] = "Waiting" /\ pc'[i] = "Attempting") => tries'[i] = tries[i] + 1
              /\ (pc[i] \notin {"Ready", "Waiting"} \/ pc'[i] # "Attempting") =>
                     tries'[i] = tries[i]]_vars

C16_Witness ==
    \E i \in Invs :
        /\ pc[i] = "Attempting"
        /\ cfg.max_tries = 3
        /\ tries[i] = 3
        /\ calls[i] = 3

\* C18: every delay of a run lies between base_delay and max_delay, and each
\* delay after the first is the double of the one before, or max_delay if
\* that is less.
C18_DelaysDoubleFromBase ==
    \A i \in Invs : \A k \in 1..Len(waits[i]) :
        /\ cfg.base_delay <= waits[i][k]
        /\ waits[i][k] <= cfg.max_delay
        /\ k > 1 => /\ waits[i][k - 1] <= waits[i][k]
                    /\ waits[i][k] = Min(2 * waits[i][k - 1], cfg.max_delay)


\* C17: func is in progress exactly while the run is in Attempting, one
\* invocation at a time; an attempt after the first is in progress only after
\* the attempt before it raised a retryable failure and the whole sleep asked
\* for after that failure has passed.
C17_OneAttemptAtATime ==
    \A i \in Invs :
        LET k == Len(outcomes[i])
        IN  /\ calls[i] - k = (IF pc[i] = "Attempting" THEN 1 ELSE 0)
            /\ (pc[i] = "Attempting" /\ k >= 1) =>
                   /\ IsFailure(outcomes[i][k])
                   /\ is_retryable_error(outcomes[i][k].exception)
                   /\ Len(waits[i]) = k
                   /\ began[i] >= ended[i] + waits[i][k]
            /\ pc[i] = "Waiting" => due[i] = ended[i] + waits[i][k]

C17_Witness ==
    \E i \in Invs :
        /\ pc[i] = "Attempting"
        /\ calls[i] = 2
        /\ waits[i][1] > 0
        /\ began[i] = ended[i] + waits[i][1]

\* C19: when the first attempt returns, func was invoked once, with the
\* caller's arguments, the caller gets the value func returned, and the run
\* has asked for no sleep and logged nothing.
C19_FirstSuccessIsTransparent ==
    \A i \in Invs :
        (pc[i] = "Succeeded" /\ Len(outcomes[i]) = 1) =>
            /\ calls[i] = 1
            /\ outcomes[i][1].ok
            /\ outcomes[i][1].args = args[i]
            /\ result[i] = outcomes[i][1].value
            /\ raised[i] = <<>>
            /\ waits[i] = <<>>
            /\ events[i] = <<>>

C19_Witness ==
    \E i \in Invs :
        /\ pc[i] = "Succeeded"
        /\ calls[i] = 1
        /\ result[i] = "v2"
        /\ events[i] = <<>>

====
